---- MODULE Spec2Model ----
(***************************************************************************)
(* TorchTime (Tower117/torchtime-web): the session-proposal / voting /     *)
(* finalization workflow and the XP levelling engine of src/app.js, with   *)
(* the earlier revision of the same handlers kept in src/unnamed/part_000. *)
(*                                                                         *)
(* build is the script that runs: "app.js" (the first script of            *)
(* src/app.js), "part_000" (src/unnamed/part_000, the earlier revision) or *)
(* "flat" (the second script of src/app.js, the flat-vote-list revision).  *)
(* clock counts the ids uuid() of the flat revision has handed out.        *)
(* JavaScript arrays are 0-based; the sequences below are 1-based, so an   *)
(* option index i of the source is i+1 here.  A JavaScript null/undefined  *)
(* id is the number 0 (NULL).                                              *)
(***************************************************************************)
EXTENDS Integers, Sequences, FiniteSets, TLC

VARIABLES build, clock, users, currentUserId, campaigns, proposals, sessions, characters,
          rolls, persisted, hash, view, awards, last

vars == <<build, clock, users, currentUserId, campaigns, proposals, sessions, characters,
          rolls, persisted, hash, view, awards, last>>

NULL == 0

\* ---- bounds ----
MaxUsers == 2
MaxOptions == 2
MaxProposals == 1

UserIds == 1..MaxUsers

\* ---- array helpers (Array.prototype.indexOf / splice / filter) ----

\* arr.indexOf(x): the first position of x, 0 when absent (JS: -1)
IndexOf(arr, x) ==
  IF \E i \in 1..Len(arr) : arr[i] = x
  THEN CHOOSE i \in 1..Len(arr) : arr[i] = x /\ \A j \in 1..(i - 1) : arr[j] # x
  ELSE 0

\* arr.splice(idx, 1)
Splice(arr, idx) == [k \in 1..(Len(arr) - 1) |-> IF k < idx THEN arr[k] ELSE arr[k + 1]]

Range(arr) == {arr[k] : k \in 1..Len(arr)}

Count(arr, x) == Cardinality({k \in 1..Len(arr) : arr[k] = x})

\* ---- proposals ----

VoteTypes == {"yes", "maybe", "no"}

EmptyVotes == [yes |-> <<>>, maybe |-> <<>>, no |-> <<>>]

\* the forEach body of handleVote: drop the first occurrence of userId
RemoveUserNone(arr, userId) == arr

RemoveUser(arr, userId) ==
  LET idx == IndexOf(arr, userId)
  IN IF idx >= 1 THEN Splice(arr, idx) ELSE arr

\* handleVote(proposal, optionIndex, voteType, state) with userId = state.currentUserId.
\* proposal.votes is a (possibly sparse) array: a function on a subset of the option indices.
handleVoteClear(proposal, optionIndex, voteType, userId) ==
  [proposal EXCEPT !.votes =
     [k \in (DOMAIN proposal.votes) \cup {optionIndex} |->
        IF k = optionIndex THEN [EmptyVotes EXCEPT ![voteType] = <<userId>>]
        ELSE proposal.votes[k]]]

handleVote(proposal, optionIndex, voteType, userId) ==
  LET rec0 == IF optionIndex \in DOMAIN proposal.votes
              THEN proposal.votes[optionIndex]
              ELSE EmptyVotes
      rec1 == [vt \in VoteTypes |-> RemoveUser(rec0[vt], userId)]
      rec2 == [rec1 EXCEPT ![voteType] = Append(@, userId)]
  IN [proposal EXCEPT !.votes =
        [k \in (DOMAIN proposal.votes) \cup {optionIndex} |->
           IF k = optionIndex THEN rec2 ELSE proposal.votes[k]]]

\* ---- time slots of a proposal (renderProposeSession rows) ----

\* the location typed into a row of the proposal form ("" = left empty)
SlotLocations == {"", "Inn"}

Row(d, s, e, l) == [date |-> d, start |-> s, end |-> e, location |-> l]

\* if (date && start && end) options.push(...)
RowCompleteDateOnly(row) == row.date # ""

RowComplete(row) == row.date # "" /\ row.start # "" /\ row.end # ""

GatherOptions(rows) == SelectSeq(rows, RowComplete)

\* votes: options.map(() => ({ yes: [], no: [], maybe: [] }))
NewProposal(id, campId, userId, options) ==
  [id |-> id, campaignId |-> campId, createdBy |-> userId,
   finalized |-> FALSE, finalChoiceIndex |-> NULL,
   options |-> options,
   votes |-> [k \in 1..Len(options) |-> EmptyVotes]]

\* ---- levelling ----

thresholds == <<0, 300, 900, 2700, 6500, 14000, 23000, 34000, 48000, 64000,
                85000, 100000, 120000, 140000, 165000, 195000, 225000,
                265000, 305000, 355000>>

\* the value of a missing property (a stored character without xp)
Undefined == -1000000

\* a >= b and a <= b of two numbers, false when one of them is undefined
GeJs(a, b) == a # Undefined /\ b # Undefined /\ a >= b

LeJs(a, b) == a # Undefined /\ b # Undefined /\ a <= b

\* for (i = length-1; i >= 0; i--) if (xp >= thresholds[i]) return i + 1; return 1
\* (i below is the 1-based position, which is the level returned)
RECURSIVE LevelScan(_, _)
LevelScanStrict(xp, i) ==
  IF \E j \in 1..i : xp # Undefined /\ xp > thresholds[j]
  THEN CHOOSE j \in 1..i : /\ xp > thresholds[j]
                           /\ \A m \in (j + 1)..i : ~(xp > thresholds[m])
  ELSE 1

LevelScan(xp, i) ==
  IF i < 1 THEN 1
  ELSE IF GeJs(xp, thresholds[i]) THEN i
  ELSE LevelScan(xp, i - 1)

getLevelFromXp(xp) == LevelScan(xp, Len(thresholds))

\* ---- the record of the handler that ran last ----

\* op: the handler; user, p, idx, vt: its arguments; was: what it found (for a
\* vote, the bucket the voter was in, "none", or "missing" for an absent record);
\* feats, tokens: what fetchLevelFeatures and the ability score prompt gave a
\* resumed Award XP handler; rows: the rows of a submitted proposal form
NoOp ==
  [op |-> "none", user |-> NULL, p |-> 0, idx |-> 0, vt |-> "none", was |-> "none",
   feats |-> <<>>, tokens |-> <<>>, rows |-> <<>>]

Op(name, userId, p, idx, vt, was) ==
  [op |-> name, user |-> userId, p |-> p, idx |-> idx, vt |-> vt, was |-> was,
   feats |-> <<>>, tokens |-> <<>>, rows |-> <<>>]

\* where a user's vote on an option of a proposal stands
VoteOf(proposal, idx, userId) ==
  IF idx \notin DOMAIN proposal.votes THEN "missing"
  ELSE IF \E vt \in VoteTypes : userId \in Range(proposal.votes[idx][vt])
       THEN CHOOSE vt \in VoteTypes : userId \in Range(proposal.votes[idx][vt])
       ELSE "none"

\* ---- the stored document ----

\* state.rolls: an array, or the property is missing
EmptyRolls == [isArray |-> TRUE, entries |-> <<>>]

MissingRolls == [isArray |-> FALSE, entries |-> <<>>]

\* a user record as the register handler pushes it
NewUser(id, username, password) == [id |-> id, username |-> username, password |-> password]

\* the users a stored state holds
RegisteredUsers == [u \in UserIds |-> NewUser(u, <<"Ann", "Bob", "Cy", "Dee">>[u], "pw")]

\* JSON.stringify(state) (the campaigns left out)
Doc(us, cu, props, sess, chars, rl) ==
  [kind |-> "json", users |-> us, currentUserId |-> cu, proposals |-> props,
   sessions |-> sess, characters |-> chars, rolls |-> rl]

\* no item under the storage key, or an item that JSON.parse rejects
AbsentDoc == [Doc(<<>>, NULL, <<>>, <<>>, <<>>, MissingRolls) EXCEPT !.kind = "absent"]

CorruptDoc == [Doc(<<>>, NULL, <<>>, <<>>, <<>>, MissingRolls) EXCEPT !.kind = "corrupt"]

\* saveState(state) at the end of a step
SaveState ==
  persisted' = Doc(users', currentUserId', proposals', sessions', characters', rolls')

\* the stored document is the state in memory
Loaded ==
  /\ users = RegisteredUsers
  /\ rolls = EmptyRolls
  /\ persisted = Doc(users, currentUserId, proposals, sessions, characters, rolls)

\* ---- views ----

View(kind, id, owner, props, chars) ==
  [kind |-> kind, id |-> id, owner |-> owner, props |-> props, chars |-> chars]

LoginView == View("login", NULL, FALSE, {}, {})

Hash(route, id) == [route |-> route, id |-> id]

(***************************************************************************)
(* handleVote called directly: any user, any option, any category, on a    *)
(* proposal as renderProposeSession creates it or as an older save left it *)
(* (an option without a vote record).                                      *)
(***************************************************************************)

FullRow == Row("2025-08-02", "18:00", "22:00", "")

VoteOptions == [k \in 1..MaxOptions |-> FullRow]

InitVote ==
  /\ build = "app.js"
  /\ clock = 0
  /\ currentUserId \in UserIds
  /\ campaigns = <<[id |-> 1, ownerId |-> 1]>>
  /\ \E dom \in SUBSET (1..MaxOptions) :
       proposals = <<[NewProposal(1, 1, 1, VoteOptions) EXCEPT
                        !.votes = [k \in dom |-> EmptyVotes]]>>
  /\ sessions = <<>>
  /\ characters = <<>>
  /\ hash = Hash("campaign", 1)
  /\ view = View("campaign", 1, FALSE, {1}, {})
  /\ awards = <<>>
  /\ last = NoOp
  /\ Loaded

\* state.currentUserId = user.id (login and register submit handlers)
SetCurrentUser(u) ==
  /\ u # currentUserId
  /\ currentUserId' = u
  /\ last' = Op("login", u, 0, 0, "none", "none")
  /\ UNCHANGED <<users, rolls, build, clock, campaigns, proposals, sessions, characters, hash, view, awards>>
  /\ SaveState

HandleVoteCall(p, idx, vt) ==
  /\ proposals' = [proposals EXCEPT ![p] = handleVote(@, idx, vt, currentUserId)]
  /\ last' = Op("vote", currentUserId, p, idx, vt, VoteOf(proposals[p], idx, currentUserId))
  /\ UNCHANGED <<users, rolls, build, clock, currentUserId, campaigns, sessions, characters, hash, view, awards>>
  /\ SaveState

NextVote ==
  \/ \E u \in UserIds : SetCurrentUser(u)
  \/ \E p \in 1..Len(proposals), idx \in 1..MaxOptions, vt \in VoteTypes :
       HandleVoteCall(p, idx, vt)

SpecVote == InitVote /\ [][NextVote]_vars

\* the bucket vt of option idx of proposal p, empty when the option has no record
Bucket(p, idx, vt) ==
  IF idx \in DOMAIN proposals[p].votes THEN proposals[p].votes[idx][vt] ELSE <<>>

\* C1: each user id occurs in at most one of an option's yes/maybe/no buckets,
\* and at most once in that bucket, after any sequence of handleVote calls.
C1_BucketsExclusive ==
  \A p \in 1..Len(proposals) : \A idx \in 1..Len(proposals[p].options) :
    \A u \in UserIds \cup {NULL} :
      Count(Bucket(p, idx, "yes"), u) + Count(Bucket(p, idx, "maybe"), u)
        + Count(Bucket(p, idx, "no"), u) <= 1

\* a user moved an earlier vote into a bucket another user is in too
C1_Witness ==
  /\ last.op = "vote" /\ last.was = "yes" /\ last.vt = "no"
  /\ Len(Bucket(last.p, last.idx, "no")) >= 2

\* C2: immediately after handleVote the voter is in the chosen bucket of the
\* option and in neither of the other two.
C2_VoteRecorded ==
  last.op = "vote" =>
    \A vt \in VoteTypes :
      (last.user \in Range(Bucket(last.p, last.idx, vt))) <=> (vt = last.vt)

\* a vote on an option that had no vote record, while another option has one
C2_Witness ==
  /\ last.op = "vote" /\ last.was = "missing"
  /\ last.user \in Range(Bucket(last.p, last.idx, last.vt))
  /\ \E idx \in DOMAIN proposals[last.p].votes : idx # last.idx

\* C3: casting the vote that was just cast once more leaves the proposal's
\* vote buckets as they are after the first cast.
C3_VoteIdempotent ==
  last.op = "vote" =>
    handleVote(proposals[last.p], last.idx, last.vt, last.user).votes = proposals[last.p].votes

\* the same vote cast by a user who already had it, in a bucket shared with another voter
C3_Witness ==
  /\ last.op = "vote" /\ last.was = last.vt
  /\ Len(Bucket(last.p, last.idx, last.vt)) >= 2

(***************************************************************************)
(* The application of src/app.js (first script): one state object, one     *)
(* #app container, the view on screen and the handlers it carries.         *)
(* The hash is a route and the value of its query parameter; a view is     *)
(* what the last render put on screen:                                      *)
(*   campaign: id = the campaign, owner = the Finalize / Award XP controls  *)
(*             were rendered (else the vote controls), props = the listed   *)
(*             unfinalized proposals, chars = the listed characters;        *)
(*   sheet:    id = the character, owner = the Award XP button was rendered;*)
(*   propose:  id = the campaign whose proposal form is shown.              *)
(***************************************************************************)

\* campaign.ownerId === state.currentUserId
IsOwnerAnyUser(camp, cu) == cu # NULL

IsOwner(camp, cu) == camp.ownerId = cu

\* state.campaigns.find((c) => c.id === id): its position, 0 when absent
FindById(arr, id) ==
  IF \E k \in 1..Len(arr) : arr[k].id = id
  THEN CHOOSE k \in 1..Len(arr) : arr[k].id = id /\ \A j \in 1..(k - 1) : arr[j].id # id
  ELSE 0

\* params.get('id') / params.get('campaignId') of the hash's query string
ParamId(h) == IF h.route = "propose-session" THEN NULL ELSE h.id

ParamCampaignId(h) == IF h.route = "propose-session" THEN h.id ELSE NULL

\* the proposals renderCampaignDetail lists with controls: those of the
\* campaign that are not finalized
ListedAll(props, campId) == {k \in 1..Len(props) : props[k].campaignId = campId}

ListedProposals(props, campId) ==
  {k \in 1..Len(props) : props[k].campaignId = campId /\ ~props[k].finalized}

renderCampaignDetail(cu, camps, props, chars, h) ==
  LET c == FindById(camps, ParamId(h))
  IN IF c = 0 THEN View("notfound", NULL, FALSE, {}, {})
     ELSE View("campaign", camps[c].id, IsOwner(camps[c], cu),
               ListedProposals(props, camps[c].id),
               {chars[k].id : k \in {j \in 1..Len(chars) : chars[j].campaignId = camps[c].id}})

renderCharacterSheet(cu, camps, props, chars, h) ==
  LET k == FindById(chars, ParamId(h))
  IN IF k = 0 THEN View("notfound", NULL, FALSE, {}, {})
     ELSE LET c == FindById(camps, chars[k].campaignId)
          IN View("sheet", chars[k].id,
                  chars[k].campaignId # NULL /\ c # 0 /\ IsOwner(camps[c], cu),
                  {}, {chars[k].id})

renderProposeSession(cu, camps, props, chars, h) ==
  LET c == FindById(camps, ParamCampaignId(h))
  IN IF c = 0 THEN View("notfound", NULL, FALSE, {}, {})
     ELSE IF ~IsOwner(camps[c], cu) THEN View("denied", camps[c].id, FALSE, {}, {})
     ELSE View("propose", camps[c].id, TRUE, {}, {})

\* render(state) for every route but #logout while logged in
render(cu, camps, props, chars, h) ==
  IF cu = NULL
  THEN IF h.route = "register" THEN View("register", NULL, FALSE, {}, {}) ELSE LoginView
  ELSE CASE h.route = "campaign" -> renderCampaignDetail(cu, camps, props, chars, h)
         [] h.route = "character-sheet" -> renderCharacterSheet(cu, camps, props, chars, h)
         [] h.route = "propose-session" -> renderProposeSession(cu, camps, props, chars, h)
         [] h.route = "timer" -> View("timer", NULL, FALSE, {}, {})
         [] h.route = "dice" -> View("dice", NULL, FALSE, {}, {})
         [] OTHER -> View("dashboard", NULL, FALSE, {}, {})

\* finalBtn.onclick of app.js: proposal.finalized = true; proposal.finalChoiceIndex = idx
finalizeFlagOnly(proposal, idx) == [proposal EXCEPT !.finalized = TRUE]

finalize(proposal, idx) == [proposal EXCEPT !.finalized = TRUE, !.finalChoiceIndex = idx]

\* ---- dates ----

\* a Date is the number of seconds from 2025-08-01T00:00 local time; an
\* Invalid Date is NaN
NaN == -1

\* new Date(`${opt.date}T${opt.start}`): the text inputs accept any text
DayOf(date) ==
  CASE date = "2025-08-02" -> 1
    [] date = "2025-08-03" -> 2
    [] OTHER -> NaN

MinuteOf(start) ==
  CASE start = "18:00" -> 1080
    [] start = "19:00" -> 1140
    [] OTHER -> NaN

ParseDate(date, start) ==
  IF DayOf(date) = NaN \/ MinuteOf(start) = NaN THEN NaN
  ELSE (DayOf(date) * 1440 + MinuteOf(start)) * 60

\* ---- the Scheduled Sessions listing of renderCampaignDetail ----

\* the listing entry of a finalised proposal (id: the proposal's id reused)
ProposalEntry(p) ==
  [id |-> p.id, campaignId |-> p.campaignId,
   datetime |-> ParseDate(p.options[p.finalChoiceIndex].date,
                          p.options[p.finalChoiceIndex].start),
   end |-> p.options[p.finalChoiceIndex].end,
   location |-> p.options[p.finalChoiceIndex].location]

\* the callback of scheduledSessions.some(...): year, month, day, hour and
\* minute of the two dates agree (never for an Invalid Date, whose fields
\* are NaN) and the locations, '' when missing, are equal
IsDuplicateNever(existing, s) == FALSE

IsDuplicate(existing, s) ==
  /\ existing.datetime # NaN /\ s.datetime # NaN
  /\ existing.datetime \div 60 = s.datetime \div 60
  /\ existing.location = s.location

RECURSIVE FinalisedEntries(_, _)
FinalisedEntries(props, campId) ==
  IF props = <<>> THEN <<>>
  ELSE LET front == FinalisedEntries(SubSeq(props, 1, Len(props) - 1), campId)
           p == props[Len(props)]
       IN IF p.campaignId = campId /\ p.finalized
          THEN Append(front, ProposalEntry(p)) ELSE front

\* state.sessions.filter(...).forEach(...): app.js pushes a session unless it
\* duplicates an entry already in the list, part_000 pushes every session
RECURSIVE AddSessions(_, _, _, _)
AddSessions(b, list, sess, campId) ==
  IF sess = <<>> THEN list
  ELSE LET s == Head(sess)
           duplicate == \E k \in 1..Len(list) : IsDuplicate(list[k], s)
       IN IF s.campaignId = campId /\ (b = "part_000" \/ ~duplicate)
          THEN AddSessions(b, Append(list, s), Tail(sess), campId)
          ELSE AddSessions(b, list, Tail(sess), campId)

\* scheduledSessions as built before it is sorted for display
scheduledSessions(b, props, sess, campId) ==
  AddSessions(b, FinalisedEntries(props, campId), sess, campId)

\* ---- finalBtn.onclick, by build ----

SessionIdBase == 200

\* part_000: the handler also pushes a session object with a fresh uuid
NewSession(sess, campId, opt) ==
  [id |-> SessionIdBase + Len(sess) + 1, campaignId |-> campId,
   datetime |-> ParseDate(opt.date, opt.start), end |-> opt.end,
   location |-> opt.location]

\* the proposals and the stored sessions after finalBtn.onclick on option idx
\* of proposal p
FinalizeEffect(b, props, sess, p, idx) ==
  IF b = "part_000"
  THEN [proposals |-> [props EXCEPT ![p] = finalize(@, idx)],
        sessions |-> Append(sess, NewSession(sess, props[p].campaignId, props[p].options[idx]))]
  ELSE [proposals |-> [props EXCEPT ![p] = finalize(@, idx)],
        sessions |-> sess]

\* ---- characters and the level-up loop of the Award XP handlers ----

Abilities == {"str", "dex", "con", "int", "wis", "cha"}

CharIdBase == 100

\* Math.floor((ch.abilityScores.con - 10) / 2)
conModTrunc(ch) ==
  IF ch.abilityScores["con"] >= 10
  THEN (ch.abilityScores["con"] - 10) \div 2
  ELSE 0 - ((10 - ch.abilityScores["con"]) \div 2)

conMod(ch) == (ch.abilityScores["con"] - 10) \div 2

\* ch.hp += (ch.hitDie || 8) + conMod
HpGainNoCon(ch) == IF ch.hitDie = 0 THEN 8 ELSE ch.hitDie

HpGain(ch) == (IF ch.hitDie = 0 THEN 8 ELSE ch.hitDie) + conMod(ch)

\* how many times ch.hp += ... ran between two values of a character in one
\* step of a handler (the constitution score does not change after the first)
HpIncreases(before, after) == (after.hp - before.hp) \div HpGain(after)

\* Array.from(new Set(arr)): first occurrences, in order
RECURSIVE Dedup(_)
Dedup(arr) ==
  IF arr = <<>> THEN <<>>
  ELSE LET front == Dedup(SubSeq(arr, 1, Len(arr) - 1))
           x == arr[Len(arr)]
       IN IF x \in Range(front) THEN front ELSE Append(front, x)

\* existing = new Set(ch.features || []); feats.forEach(add); Array.from(existing)
MergeFeaturesConcat(features, feats) == features \o feats

MergeFeatures(features, feats) == Dedup(features \o feats)

\* /ability score/i.test(f)
AsiFeature(f) == f \in {"Ability Score Improvement", "ability score increase"}

ValidCodes == {"str", "dex", "con", "int", "wis", "cha"}

\* p.trim().toLowerCase() of a token of the prompt's answer
LowerCase(tok) ==
  CASE tok = "CON" -> "con"
    [] tok = "Str" -> "str"
    [] tok = "DEX" -> "dex"
    [] tok \in {"Ann", "ANN"} -> "ann"
    [] tok = "Bob" -> "bob"
    [] tok = "Cy" -> "cy"
    [] tok = "Dee" -> "dee"
    [] OTHER -> tok

\* promptAbilityScoreIncrease(ch); tokens = input.split(/[,\s]+/), <<>> for no input
promptAbilityScoreIncreaseFirst(ch, tokens) ==
  IF Len(tokens) = 0 THEN ch
  ELSE [ch EXCEPT !.abilityScores =
          [a \in DOMAIN @ |-> IF a = LowerCase(tokens[1]) THEN @[a] + 1 ELSE @[a]]]

promptAbilityScoreIncrease(ch, tokens) ==
  LET lowered == [k \in 1..Len(tokens) |-> LowerCase(tokens[k])]
      IsValid(t) == t \in ValidCodes
      parts == SelectSeq(lowered, IsValid)
  IN IF Len(tokens) = 0 THEN ch
     ELSE IF Len(parts) = 1
          THEN [ch EXCEPT !.abilityScores[parts[1]] = @ + 2]
     ELSE IF Len(parts) >= 2
          THEN LET ch1 == [ch EXCEPT !.abilityScores[parts[1]] = @ + 1]
               IN [ch1 EXCEPT !.abilityScores[parts[2]] = @ + 1]
     ELSE ch

\* the for loop from lvl on, up to its first await (wait = the level whose
\* features are being fetched) or to its end (wait = 0, level set).
\* A waiting handler is a record of awards: ch, the character's position;
\* newLevel and lvl, its local variables; from, the view it will render; and
\* what it has done so far: start, ch.level when it was clicked; hps, the
\* number of hit-point increases; fetched and merged, the levels whose
\* features it has asked for and merged.
RECURSIVE LevelLoop(_, _, _)
LevelLoopOnce(ch, lvl, newLevel) ==
  [ch |-> [ch EXCEPT !.hp = @ + HpGain(ch), !.level = newLevel], wait |-> 0]

LevelLoop(ch, lvl, newLevel) ==
  IF lvl > newLevel THEN [ch |-> [ch EXCEPT !.level = newLevel], wait |-> 0]
  ELSE LET ch1 == [ch EXCEPT !.hp = @ + HpGain(ch)]
       IN IF ch.classIndex # "" THEN [ch |-> ch1, wait |-> lvl]
          ELSE LevelLoop(ch1, lvl + 1, newLevel)

\* xpBtn.onclick up to its first await or its end
AwardStart(ch, xp) ==
  LET ch1 == [ch EXCEPT !.xp = @ + xp]
      newLevel == getLevelFromXp(ch1.xp)
  IN IF newLevel > ch1.level
     THEN [r |-> LevelLoop(ch1, ch1.level + 1, newLevel), newLevel |-> newLevel]
     ELSE [r |-> [ch |-> ch1, wait |-> 0], newLevel |-> newLevel]

\* the handler resumed with the fetched features of level lvl
AwardResumeAbort(ch, lvl, newLevel, feats, tokens) == [ch |-> ch, wait |-> 0]

AwardResume(ch, lvl, newLevel, feats, tokens) ==
  LET ch1 == [ch EXCEPT !.features = MergeFeatures(@, feats)]
      ch2 == IF \E k \in 1..Len(feats) : AsiFeature(feats[k])
             THEN promptAbilityScoreIncrease(ch1, tokens)
             ELSE ch1
  IN LevelLoop(ch2, lvl + 1, newLevel)

\* ---- handlers of the application ----

MaxXp == 300

NewCharacter(id, userId, campId, classIndex, hitDie, con) ==
  [id |-> id, userId |-> userId, campaignId |-> campId, level |-> 1, xp |-> 0,
   abilityScores |-> [a \in Abilities |-> IF a = "con" THEN con ELSE 10],
   hp |-> hitDie + ((con - 10) \div 2), hitDie |-> hitDie,
   classIndex |-> classIndex, features |-> <<>>]

CampaignIds == {campaigns[k].id : k \in 1..Len(campaigns)}

CharacterIds == {characters[k].id : k \in 1..Len(characters)}

\* the hashes a user can move to by a link, a button or the address bar
Hashes ==
  {Hash(r, NULL) : r \in {"login", "dashboard", "logout"}}
    \cup {Hash(r, c) : r \in {"campaign", "propose-session"}, c \in CampaignIds}
    \cup {Hash("character-sheet", c) : c \in CharacterIds}

Init ==
  /\ build = "app.js"
  /\ clock = 0
  /\ currentUserId = NULL
  /\ campaigns = <<[id |-> 1, ownerId |-> 1], [id |-> 2, ownerId |-> 2]>>
  /\ proposals = <<>>
  /\ sessions = <<>>
  /\ characters = <<NewCharacter(CharIdBase + 1, 2, 1, "fighter", 10, 13)>>
  /\ hash = Hash("", NULL)
  /\ view = LoginView
  /\ awards = <<>>
  /\ last = NoOp
  /\ Loaded

\* hashchange listener: render(state), with handleLogout on #logout
Navigate(h) ==
  /\ h # hash
  /\ IF currentUserId # NULL /\ h.route = "logout"
     THEN /\ currentUserId' = NULL
          /\ hash' = Hash("login", NULL)
          /\ view' = render(NULL, campaigns, proposals, characters, Hash("login", NULL))
          /\ last' = Op("logout", currentUserId, 0, 0, "none", "none")
     ELSE /\ hash' = h
          /\ view' = render(currentUserId, campaigns, proposals, characters, h)
          /\ last' = Op("navigate", currentUserId, 0, 0, "none", "none")
          /\ UNCHANGED currentUserId
  /\ UNCHANGED <<users, rolls, build, clock, campaigns, proposals, sessions, characters, awards>>
  /\ IF last'.op = "logout" THEN SaveState ELSE UNCHANGED persisted

\* loginForm.onsubmit with the credentials of user u; the hashchange it
\* causes (none when the hash already is #dashboard) renders
LoginSubmit(u) ==
  /\ view.kind = "login"
  /\ \E k \in 1..Len(users) : users[k].id = u
  /\ currentUserId' = u
  /\ hash' = Hash("dashboard", NULL)
  /\ view' = IF hash = Hash("dashboard", NULL) THEN view
             ELSE render(u, campaigns, proposals, characters, Hash("dashboard", NULL))
  /\ last' = Op("login", u, 0, 0, "none", "none")
  /\ UNCHANGED <<users, rolls, build, clock, campaigns, proposals, sessions, characters, awards>>
  /\ SaveState

\* proposalForm.onsubmit
ProposeSubmit(rows, cap) ==
  LET options == GatherOptions(rows)
      rejected == Len(options) = 0
  IN /\ view.kind = "propose"
     /\ rejected \/ Len(proposals) < cap
     /\ last' = [Op(IF rejected THEN "propose-rejected" ELSE "propose", currentUserId,
                    Len(proposals) + 1, 0, "none", "none") EXCEPT !.rows = rows]
     /\ IF rejected
        THEN UNCHANGED <<proposals, hash, view, persisted>>
        ELSE /\ proposals' = Append(proposals,
                               NewProposal(Len(proposals) + 1, view.id, currentUserId, options))
             /\ hash' = Hash("campaign", view.id)
             /\ view' = render(currentUserId, campaigns, proposals', characters, hash')
             /\ persisted' = Doc(users, currentUserId, proposals', sessions, characters, rolls)
     /\ UNCHANGED <<users, rolls, build, clock, currentUserId, campaigns, sessions, characters, awards>>

\* a vote button: handleVote(...); renderCampaignDetail(container, state)
VoteClick(p, idx, vt) ==
  /\ view.kind = "campaign" /\ ~view.owner
  /\ p \in view.props
  /\ idx \in 1..Len(proposals[p].options)
  /\ proposals' = [proposals EXCEPT ![p] = handleVote(@, idx, vt, currentUserId)]
  /\ view' = renderCampaignDetail(currentUserId, campaigns, proposals', characters, hash)
  /\ last' = Op("vote", currentUserId, p, idx, vt, VoteOf(proposals[p], idx, currentUserId))
  /\ UNCHANGED <<users, rolls, build, clock, currentUserId, campaigns, sessions, characters, hash, awards>>
  /\ SaveState

\* finalBtn.onclick
FinalizeClick(p, idx) ==
  /\ view.kind = "campaign" /\ view.owner
  /\ p \in view.props
  /\ idx \in 1..Len(proposals[p].options)
  /\ proposals' = FinalizeEffect(build, proposals, sessions, p, idx).proposals
  /\ sessions' = FinalizeEffect(build, proposals, sessions, p, idx).sessions
  /\ view' = renderCampaignDetail(currentUserId, campaigns, proposals', characters, hash)
  /\ last' = Op("finalize", currentUserId, p, idx, "none",
                IF proposals[p].finalized THEN "finalized" ELSE "open")
  /\ UNCHANGED <<users, rolls, build, clock, currentUserId, campaigns, characters, hash, awards>>
  /\ SaveState

\* the view an Award XP handler renders when it ends
AwardRender(from, chars) ==
  IF from = "campaign"
  THEN renderCampaignDetail(currentUserId, campaigns, proposals, chars, hash)
  ELSE renderCharacterSheet(currentUserId, campaigns, proposals, chars, hash)

\* xpBtn.onclick (campaign detail or character sheet) with a parsed amount
\* xp > 0, up to its first await
AwardXpClick(id, xp, cap) ==
  /\ \/ view.kind = "campaign" /\ view.owner /\ id \in view.chars
     \/ view.kind = "sheet" /\ view.owner /\ id = view.id
  /\ LET k == FindById(characters, id)
         a == AwardStart(characters[k], xp)
     IN /\ characters[k].xp + xp <= cap
        /\ characters' = [characters EXCEPT ![k] = a.r.ch]
        /\ IF a.r.wait = 0
           THEN /\ awards' = awards
                /\ view' = AwardRender(view.kind, characters')
           ELSE /\ awards' = Append(awards,
                              [ch |-> k, newLevel |-> a.newLevel, lvl |-> a.r.wait,
                               from |-> view.kind, start |-> characters[k].level,
                               hps |-> HpIncreases(characters[k], a.r.ch),
                               fetched |-> <<a.r.wait>>, merged |-> <<>>])
                /\ view' = view
        /\ last' = Op("award", currentUserId, k, xp, "none", "none")
  /\ UNCHANGED <<users, rolls, build, clock, currentUserId, campaigns, proposals, sessions, hash>>
  /\ IF Len(awards') = Len(awards) THEN SaveState ELSE UNCHANGED persisted

\* fetchLevelFeatures resolves for the n-th waiting handler with feats ([] on
\* a failed call); tokens is the answer to the ability score prompt
FetchResolved(n, feats, tokens) ==
  /\ n \in 1..Len(awards)
  /\ LET a == awards[n]
         r == AwardResume(characters[a.ch], a.lvl, a.newLevel, feats, tokens)
     IN /\ characters' = [characters EXCEPT ![a.ch] = r.ch]
        /\ IF r.wait = 0
           THEN /\ awards' = [k \in 1..(Len(awards) - 1) |->
                                IF k < n THEN awards[k] ELSE awards[k + 1]]
                /\ view' = AwardRender(a.from, characters')
           ELSE /\ awards' = [awards EXCEPT
                                ![n].lvl = r.wait,
                                ![n].hps = @ + HpIncreases(characters[a.ch], r.ch),
                                ![n].fetched = Append(@, r.wait),
                                ![n].merged = Append(@, a.lvl)]
                /\ view' = view
        /\ last' = [Op("resume", currentUserId, a.ch, a.lvl, "none", "none") EXCEPT
                      !.feats = feats,
                      !.tokens = IF \E j \in 1..Len(feats) : AsiFeature(feats[j])
                                 THEN tokens ELSE <<>>]
  /\ UNCHANGED <<users, rolls, build, clock, currentUserId, campaigns, proposals, sessions, hash>>
  /\ IF Len(awards') < Len(awards) THEN SaveState ELSE UNCHANGED persisted

\* what is typed into the proposal form: 1..MaxOptions complete rows, or
\* rows of which one lacks its start time
RowInputs ==
  {[k \in 1..n |-> Row("2025-08-02", IF k = 1 THEN "18:00" ELSE "19:00", "22:00",
                       IF k = 2 THEN "Inn" ELSE "")] : n \in 1..MaxOptions}
    \cup {<<Row("2025-08-03", "", "22:00", ""), Row("2025-08-03", "19:00", "22:00", "")>>}

SingleRowInputs == {<<FullRow>>, <<Row("2025-08-03", "", "22:00", ""), FullRow>>}

XpInputs == {300}

FeatInputs == {<<>>, <<"Second Wind">>}

\* the whole application
Next ==
  \/ \E h \in Hashes : Navigate(h)
  \/ \E u \in UserIds : LoginSubmit(u)
  \/ \E rows \in SingleRowInputs : ProposeSubmit(rows, MaxProposals)
  \/ \E p \in 1..Len(proposals), idx \in 1..MaxOptions, vt \in VoteTypes : VoteClick(p, idx, vt)
  \/ \E p \in 1..Len(proposals), idx \in 1..MaxOptions : FinalizeClick(p, idx)
  \/ \E id \in CharacterIds, xp \in XpInputs : AwardXpClick(id, xp, MaxXp)
  \/ \E n \in 1..Len(awards), feats \in FeatInputs : FetchResolved(n, feats, <<>>)

Spec == Init /\ [][Next]_vars

\* the proposal workflow alone, with proposals of several options (the Award
\* XP handlers, which touch no proposal, left out)
NextProposal ==
  \/ \E h \in Hashes : Navigate(h)
  \/ \E u \in UserIds : LoginSubmit(u)
  \/ \E rows \in RowInputs : ProposeSubmit(rows, MaxProposals)
  \/ \E p \in 1..Len(proposals), idx \in 1..MaxOptions, vt \in VoteTypes : VoteClick(p, idx, vt)
  \/ \E p \in 1..Len(proposals), idx \in 1..MaxOptions : FinalizeClick(p, idx)

SpecProposal == Init /\ [][NextProposal]_vars

\* ---- the proposal workflow: finalization ----

OwnerOf(campId) ==
  LET c == FindById(campaigns, campId)
  IN IF c = 0 THEN NULL ELSE campaigns[c].ownerId

\* C4: a proposal is finalized exactly when finalChoiceIndex is an index of
\* one of its options, and an unfinalized proposal has finalChoiceIndex null.
C4_FinalizedHasChoice ==
  \A p \in 1..Len(proposals) :
    /\ proposals[p].finalized <=>
         (proposals[p].finalChoiceIndex \in 1..Len(proposals[p].options))
    /\ ~proposals[p].finalized => proposals[p].finalChoiceIndex = NULL

\* the owner has just finalized the second option of a proposal with votes
C4_Witness ==
  /\ last.op = "finalize" /\ last.idx = 2
  /\ proposals[last.p].finalized
  /\ Len(proposals[last.p].options) >= 2
  /\ Len(Bucket(last.p, 2, "yes")) >= 1

\* C5: once a proposal is finalized no step of the application changes any
\* of its vote buckets.
C5_NoVoteAfterFinalize ==
  [][\A p \in 1..Len(proposals) :
       proposals[p].finalized => proposals'[p].votes = proposals[p].votes]_vars

\* a player who voted on a proposal looks at its campaign after the
\* proposal was finalized
C5_Witness ==
  /\ view.kind = "campaign" /\ ~view.owner
  /\ currentUserId # NULL
  /\ \E p \in 1..Len(proposals) :
       /\ proposals[p].finalized
       /\ proposals[p].campaignId = view.id
       /\ currentUserId \in Range(Bucket(p, 1, "yes"))

\* C7: once finalized, a proposal stays finalized and keeps its
\* finalChoiceIndex in every later step.
C7_FinalizePermanent ==
  [][\A p \in 1..Len(proposals) :
       proposals[p].finalized =>
         /\ proposals'[p].finalized
         /\ proposals'[p].finalChoiceIndex = proposals[p].finalChoiceIndex]_vars

\* the owner is back on the campaign of a proposal with two options that
\* was finalized on its first option
C7_Witness ==
  /\ view.kind = "campaign" /\ view.owner /\ last.op = "navigate"
  /\ \E p \in 1..Len(proposals) :
       /\ proposals[p].finalized /\ proposals[p].finalChoiceIndex = 1
       /\ Len(proposals[p].options) >= 2
       /\ proposals[p].campaignId = view.id

\* C8: a finalize handler and an Award XP handler start only while the
\* logged-in user is the owner of the campaign of the proposal or of the
\* character; a view rendered for anyone else carries neither control.
C8_OwnerOnly ==
  [][/\ last'.op = "finalize" =>
          /\ currentUserId # NULL
          /\ currentUserId = OwnerOf(proposals[last'.p].campaignId)
     /\ last'.op = "award" =>
          /\ currentUserId # NULL
          /\ currentUserId = OwnerOf(characters[last'.p].campaignId)
     /\ (view'.kind \in {"campaign", "sheet"} /\ view'.owner) =>
          /\ currentUserId' # NULL
          /\ view'.kind = "campaign" => currentUserId' = OwnerOf(view'.id)
          /\ view'.kind = "sheet" =>
               currentUserId' = OwnerOf(characters'[FindById(characters', view'.id)].campaignId)]_vars

\* the owner of campaign 1 has awarded XP to its character after finalizing
\* a proposal of the campaign, which the other user had voted on
C8_Witness ==
  /\ last.op = "award" /\ last.user = OwnerOf(1)
  /\ \E p \in 1..Len(proposals) :
       /\ proposals[p].finalized /\ proposals[p].campaignId = 1
       /\ Len(Bucket(p, 1, "no")) >= 1

(***************************************************************************)
(* finalBtn.onclick called directly, on a proposal that is open or was     *)
(* finalized on the same option, in either build.  (In part_000 render()   *)
(* compares the whole hash, query included, with the route names, so its   *)
(* handlers are exercised here as functions of the state.)                 *)
(***************************************************************************)

MaxSessions == 3

InitFinalize ==
  /\ build \in {"app.js", "part_000"}
  /\ clock = 0
  /\ currentUserId = 1
  /\ campaigns = <<[id |-> 1, ownerId |-> 1]>>
  /\ \E r1, r2 \in RowInputs :
       proposals = <<NewProposal(1, 1, 1, GatherOptions(r1)),
                     NewProposal(2, 1, 1, GatherOptions(r2))>>
  /\ sessions = <<>>
  /\ characters = <<>>
  /\ hash = Hash("campaign", 1)
  /\ view = View("campaign", 1, TRUE, {1, 2}, {})
  /\ awards = <<>>
  /\ last = NoOp
  /\ Loaded

FinalizeCall(p, idx) ==
  /\ idx \in 1..Len(proposals[p].options)
  /\ ~proposals[p].finalized \/ proposals[p].finalChoiceIndex = idx
  /\ Len(sessions) < MaxSessions
  /\ proposals' = FinalizeEffect(build, proposals, sessions, p, idx).proposals
  /\ sessions' = FinalizeEffect(build, proposals, sessions, p, idx).sessions
  /\ view' = renderCampaignDetail(currentUserId, campaigns, proposals', characters, hash)
  /\ last' = Op("finalize", currentUserId, p, idx, "none",
                IF proposals[p].finalized THEN "finalized" ELSE "open")
  /\ UNCHANGED <<users, rolls, build, clock, currentUserId, campaigns, characters, hash, awards>>
  /\ SaveState

NextFinalize == \E p \in 1..Len(proposals), idx \in 1..MaxOptions : FinalizeCall(p, idx)

SpecFinalize == InitFinalize /\ [][NextFinalize]_vars

MaxLegacySessions == 2
MaxListedProposals == 2

\* stored sessions of campaign 1: 18:00:00 and 18:00:30 on 2025-08-02, or an
\* unparseable datetime; with or without a location
LegacySession(id, t, loc) ==
  [id |-> id, campaignId |-> 1, datetime |-> t, end |-> "22:00", location |-> loc]

LegacyTimes == {151200, 151230, NaN}

LegacyLists ==
  UNION {[1..n -> LegacyTimes \X SlotLocations] : n \in 0..MaxLegacySessions}

ListingRows ==
  { <<FullRow>>, <<Row("2025-08-02", "18:00", "22:00", "Inn")>>,
    <<Row("soon", "18:00", "22:00", "")>> }

InitListing ==
  /\ build = "app.js"
  /\ clock = 0
  /\ currentUserId = NULL
  /\ campaigns = <<[id |-> 1, ownerId |-> 1]>>
  /\ proposals = <<>>
  /\ \E l \in LegacyLists :
       sessions = [k \in 1..Len(l) |-> LegacySession(SessionIdBase + k, l[k][1], l[k][2])]
  /\ characters = <<>>
  /\ hash = Hash("", NULL)
  /\ view = LoginView
  /\ awards = <<>>
  /\ last = NoOp
  /\ Loaded

ListingHashes ==
  {Hash("logout", NULL)} \cup {Hash(r, 1) : r \in {"campaign", "propose-session"}}

NextListing ==
  \/ \E h \in ListingHashes : Navigate(h)
  \/ LoginSubmit(1)
  \/ \E rows \in ListingRows : ProposeSubmit(rows, MaxListedProposals)
  \/ \E p \in 1..Len(proposals) : FinalizeClick(p, 1)

SpecListing == InitListing /\ [][NextListing]_vars

\* the listing on screen
Listing == scheduledSessions(build, proposals, sessions, view.id)

NumFinalised == Len(FinalisedEntries(proposals, view.id))

\* same start time to the minute and same location
SameStartAndLocation(a, b) ==
  /\ a.datetime # NaN /\ b.datetime # NaN
  /\ a.datetime \div 60 = b.datetime \div 60
  /\ a.location = b.location

\* C9 as claimed: the listing never shows two entries with equal
\* minute-level start and location, whatever the entries come from.
C9_NoTwoEqualEntries ==
  view.kind = "campaign" =>
    \A i, j \in 1..Len(Listing) :
      i # j => ~SameStartAndLocation(Listing[i], Listing[j])

\* C9 amended: an entry that comes from a stored session has the minute-level
\* start and location of no other entry of the listing; only entries of
\* finalised proposals, which are all listed, can agree with each other.
C9_StoredSessionsDeduplicated ==
  view.kind = "campaign" =>
    \A i, j \in 1..Len(Listing) :
      (i # j /\ SameStartAndLocation(Listing[i], Listing[j]))
        => (i <= NumFinalised /\ j <= NumFinalised)

\* two stored sessions at 18:00:00 and 18:00:30 and a finalised proposal for
\* 18:00, all without location, are listed as one entry
C9_Witness ==
  /\ view.kind = "campaign"
  /\ NumFinalised = 1 /\ Len(Listing) = 1
  /\ Len(sessions) = 2
  /\ sessions[1].datetime = 151200 /\ sessions[2].datetime = 151230
  /\ sessions[1].location = "" /\ sessions[2].location = ""

(***************************************************************************)
(* The Award XP handlers alone: the campaign owner awards XP from the      *)
(* campaign page and from the character sheet; a handler waits on          *)
(* fetchLevelFeatures once per level gained, and further clicks and        *)
(* fetch completions run in between, in any order.                         *)
(***************************************************************************)

MaxLevelXp == 900

LevelXpInputs == {300, 600, 900}

LevelFeatInputs == {<<>>, <<"Second Wind">>, <<"Ability Score Improvement">>}

AsiAnswers == {<<>>, <<"CON">>, <<"Str", "con">>, <<"luck">>}

InitLevel ==
  /\ build = "app.js"
  /\ clock = 0
  /\ currentUserId = 1
  /\ campaigns = <<[id |-> 1, ownerId |-> 1]>>
  /\ proposals = <<>>
  /\ sessions = <<>>
  /\ \E cls \in {"fighter", ""}, die \in {10, 0}, con \in {13, 9} :
       characters = <<NewCharacter(CharIdBase + 1, 2, 1, cls, die, con)>>
  /\ hash = Hash("campaign", 1)
  /\ view = View("campaign", 1, TRUE, {}, {CharIdBase + 1})
  /\ awards = <<>>
  /\ last = NoOp
  /\ Loaded

LevelHashes == {Hash("campaign", 1), Hash("character-sheet", CharIdBase + 1)}

NextLevel ==
  \/ \E h \in LevelHashes : Navigate(h)
  \/ \E id \in CharacterIds, xp \in LevelXpInputs : AwardXpClick(id, xp, MaxLevelXp)
  \/ \E n \in 1..Len(awards), feats \in LevelFeatInputs, tokens \in AsiAnswers :
       FetchResolved(n, feats, tokens)

SpecLevel == InitLevel /\ [][NextLevel]_vars

\* C10: whenever no Award XP handler is still running, each character's
\* level equals getLevelFromXp(xp).
C10_LevelMatchesXp ==
  awards = <<>> =>
    \A k \in 1..Len(characters) :
      characters[k].level = getLevelFromXp(characters[k].xp)

(***************************************************************************)
(* getLevelFromXp alone: two stored characters with any XP (at, just below *)
(* and just above every threshold, or missing), whose level is looked up.  *)
(***************************************************************************)

XpSamples ==
  {Undefined} \cup {thresholds[i] + d : i \in 1..Len(thresholds), d \in {-1, 0, 1}}

StoredCharacter(id, xp) ==
  [NewCharacter(id, 2, 1, "fighter", 10, 13) EXCEPT !.xp = xp]

InitXp ==
  /\ build = "app.js"
  /\ clock = 0
  /\ currentUserId = 1
  /\ campaigns = <<[id |-> 1, ownerId |-> 1]>>
  /\ proposals = <<>>
  /\ sessions = <<>>
  /\ \E xp1 \in XpSamples, xp2 \in XpSamples :
       characters = <<StoredCharacter(CharIdBase + 1, xp1),
                      StoredCharacter(CharIdBase + 2, xp2)>>
  /\ hash = Hash("campaign", 1)
  /\ view = View("campaign", 1, TRUE, {}, {CharIdBase + 1, CharIdBase + 2})
  /\ awards = <<>>
  /\ last = NoOp
  /\ Loaded

\* const newLevel = getLevelFromXp(ch.xp) for the k-th character
LookupLevel(k) ==
  /\ last' = Op("level", currentUserId, k, getLevelFromXp(characters[k].xp), "none", "none")
  /\ UNCHANGED <<users, rolls, build, clock, currentUserId, campaigns, proposals, sessions, characters,
                 hash, view, awards>>
  /\ UNCHANGED persisted

NextXp == \E k \in 1..Len(characters) : LookupLevel(k)

SpecXp == InitXp /\ [][NextXp]_vars

\* C11: the level looked up is the position of the highest threshold that
\* the XP reaches, 1 when it reaches none (negative or missing XP), and is
\* always between 1 and 20.
C11_LevelLookup ==
  last.op = "level" =>
    LET xp == characters[last.p].xp
        met == {i \in 1..Len(thresholds) : xp # Undefined /\ thresholds[i] <= xp}
    IN /\ last.idx \in 1..20
       /\ Len(thresholds) = 20
       /\ met = {} => last.idx = 1
       /\ met # {} => /\ last.idx \in met
                      /\ \A i \in met : i <= last.idx

C11_Witness ==
  /\ last.op = "level"
  /\ characters[last.p].xp = 2699
  /\ last.idx = 3
  /\ \E k \in 1..Len(characters) : characters[k].xp \in {Undefined, -1}

\* C12: XP at or above the threshold of a level gives at least that level,
\* and of two XP values the larger never gives the lower level.
C12_LevelMonotonic ==
  /\ last.op = "level" =>
       \A i \in 1..Len(thresholds) :
         GeJs(characters[last.p].xp, thresholds[i]) => last.idx >= i
  /\ \A a \in 1..Len(characters), b \in 1..Len(characters) :
       LeJs(characters[a].xp, characters[b].xp) =>
         getLevelFromXp(characters[a].xp) <= getLevelFromXp(characters[b].xp)

C12_Witness ==
  /\ last.op = "level"
  /\ characters[1].xp = 300 /\ characters[2].xp = 355001
  /\ getLevelFromXp(characters[1].xp) = 2
  /\ getLevelFromXp(characters[2].xp) = 20

\* ---- one Award XP handler from its click to its end ----

\* the positions of the handlers whose end the step is
Ended(n) ==
  /\ n \in 1..Len(awards)
  /\ Len(awards') = Len(awards) - 1
  /\ awards[n].ch = last'.p /\ awards[n].lvl = last'.idx
  /\ awards' = [k \in 1..(Len(awards) - 1) |-> IF k < n THEN awards[k] ELSE awards[k + 1]]

\* C13: an Award XP handler clicked at level L with new level N > L has, when
\* it ends, increased the hit points N - L times, has fetched and merged the
\* features of the levels L+1, ..., N once each in this order (of a character
\* with a class), and sets level to N only then; a handler whose new level
\* is not above L changes neither hit points nor features nor level.
C13_PerLevelEffects ==
  [][/\ (last'.op = "award" /\ Len(awards') = Len(awards)) =>
          LET c == characters[last'.p]
              d == characters'[last'.p]
              N == getLevelFromXp(d.xp)
          IN IF N > c.level
             THEN /\ c.classIndex = ""
                  /\ HpIncreases(c, d) = N - c.level
                  /\ d.features = c.features
                  /\ d.level = N
             ELSE d.hp = c.hp /\ d.features = c.features /\ d.level = c.level
     /\ (last'.op = "award" /\ Len(awards') > Len(awards)) =>
          /\ characters[last'.p].classIndex # ""
          /\ characters'[last'.p].level = characters[last'.p].level
     /\ (last'.op = "resume" /\ Len(awards') = Len(awards)) =>
          characters'[last'.p].level = characters[last'.p].level
     /\ (last'.op = "resume" /\ Len(awards') < Len(awards)) =>
          \A n \in 1..Len(awards) :
            Ended(n) =>
              LET a == awards[n]
                  L == a.start
                  N == a.newLevel
              IN /\ N > L
                 /\ a.hps + HpIncreases(characters[a.ch], characters'[a.ch]) = N - L
                 /\ a.fetched = [i \in 1..(N - L) |-> L + i]
                 /\ Append(a.merged, a.lvl) = a.fetched
                 /\ characters'[a.ch].level = N]_vars

\* a handler clicked at level 1 with new level 3 is waiting for the features
\* of level 3, after the hit points were increased twice
C13_Witness ==
  \E n \in 1..Len(awards) :
    /\ awards[n].start = 1 /\ awards[n].newLevel = 3
    /\ awards[n].fetched = <<2, 3>> /\ awards[n].merged = <<2>>
    /\ awards[n].hps = 2
    /\ characters[awards[n].ch].level = 1

\* C14: every hit-point increase of a level-up is the hit die (8 for a
\* character without one) plus floor((con - 10) / 2), the floor going down
\* for a constitution below 10.
C14_HpIncrease ==
  [][\A k \in 1..Len(characters) :
       LET c == characters[k]
           d == characters'[k]
           die == IF d.hitDie = 0 THEN 8 ELSE d.hitDie
           con == d.abilityScores["con"]
           mod == CHOOSE m \in -5..10 : 2 * m <= con - 10 /\ con - 10 < 2 * m + 2
       IN d.hp # c.hp =>
            /\ last'.op \in {"award", "resume"} /\ last'.p = k
            /\ \E times \in 1..Len(thresholds) :
                 /\ d.hp - c.hp = times * (die + mod)
                 /\ c.classIndex # "" => times = 1
                 /\ c.classIndex = "" => times = getLevelFromXp(d.xp) - c.level]_vars

\* a character without a hit die and with constitution 9 has gone from level
\* 1 to level 3 in one award: 8 - 1 hit points per level
C14_Witness ==
  /\ last.op = "award" /\ last.idx = 900
  /\ characters[last.p].hitDie = 0
  /\ characters[last.p].abilityScores["con"] = 9
  /\ characters[last.p].level = 3
  /\ characters[last.p].hp = (0 - 1) + 7 + 7

(***************************************************************************)
(* One Award XP handler over two levels, on a character whose stored       *)
(* feature list is arbitrary: whatever fetchLevelFeatures returns is       *)
(* merged, and whatever is answered to the ability score prompt is applied.*)
(***************************************************************************)

MaxStoredFeatures == 2

FeatureNames == {"Second Wind", "Action Surge", "Ability Score Improvement"}

StoredFeatureLists == UNION {[1..n -> FeatureNames] : n \in 0..MaxStoredFeatures}

FetchedLists ==
  { <<>>, <<"Second Wind">>, <<"Second Wind", "Action Surge">>,
    <<"Action Surge", "Second Wind">>, <<"Second Wind", "Second Wind">>,
    <<"Ability Score Improvement">>, <<"Ability Score Improvement", "Second Wind">> }

AsiAnswersAll ==
  { <<>>, <<"">>, <<"CON">>, <<"luck">>, <<"Str", "con">>, <<"con", "con">>,
    <<"Str", "luck">>, <<"DEX", "Str", "con">> }

MaxResumeXp == 900

InitResume ==
  /\ build = "app.js"
  /\ clock = 0
  /\ currentUserId = 1
  /\ campaigns = <<[id |-> 1, ownerId |-> 1]>>
  /\ proposals = <<>>
  /\ sessions = <<>>
  /\ \E fs \in StoredFeatureLists :
       characters = <<[NewCharacter(CharIdBase + 1, 2, 1, "fighter", 10, 13)
                         EXCEPT !.features = fs]>>
  /\ hash = Hash("campaign", 1)
  /\ view = View("campaign", 1, TRUE, {}, {CharIdBase + 1})
  /\ awards = <<>>
  /\ last = NoOp
  /\ Loaded

NextResume ==
  \/ AwardXpClick(CharIdBase + 1, MaxResumeXp, MaxResumeXp)
  \/ \E n \in 1..Len(awards), feats \in FetchedLists, tokens \in AsiAnswersAll :
       FetchResolved(n, feats, tokens)

SpecResume == InitResume /\ [][NextResume]_vars

\* C15: after the fetched features of a level are merged, the character's
\* feature list holds every feature it held and every fetched feature and
\* no name twice, and merging the same fetched features again changes nothing.
C15_MergeIsUnion ==
  [][last'.op = "resume" =>
       LET f == characters[last'.p].features
           g == characters'[last'.p].features
       IN /\ Range(g) = Range(f) \cup Range(last'.feats)
          /\ \A i, j \in 1..Len(g) : i # j => g[i] # g[j]
          /\ MergeFeatures(g, last'.feats) = g]_vars

\* fetched features of which one was already on the list
C15_Witness ==
  /\ last.op = "resume"
  /\ last.feats = <<"Second Wind", "Action Surge">>
  /\ characters[last.p].features = <<"Action Surge", "Second Wind">>

\* C16: the ability score prompt raises one designated ability by 2 or two
\* designated abilities by 1 each, and changes no score when the answer is
\* empty or names no ability; no score changes in any other way.
C16_AbilityScoreIncrease ==
  [][LET prompted ==
           /\ last'.op = "resume"
           /\ \E j \in 1..Len(last'.feats) : AsiFeature(last'.feats[j])
     IN \A k \in 1..Len(characters) :
          LET delta == [a \in Abilities |->
                          characters'[k].abilityScores[a] - characters[k].abilityScores[a]]
              changed == {a \in Abilities : delta[a] # 0}
              designated ==
                {LowerCase(last'.tokens[i]) : i \in 1..Len(last'.tokens)} \cap Abilities
          IN IF prompted /\ k = last'.p
             THEN /\ changed \subseteq designated
                  /\ designated = {} => changed = {}
                  /\ designated # {} =>
                       \/ \E a \in designated : changed = {a} /\ delta[a] = 2
                       \/ \E a, b \in designated :
                            a # b /\ changed = {a, b} /\ delta[a] = 1 /\ delta[b] = 1
             ELSE changed = {}]_vars

\* three abilities were named: the first two went up by 1, the third did not
C16_Witness ==
  /\ last.op = "resume"
  /\ last.tokens = <<"DEX", "Str", "con">>
  /\ characters[last.p].abilityScores["dex"] = 11
  /\ characters[last.p].abilityScores["str"] = 11
  /\ characters[last.p].abilityScores["con"] = 13

\* ---- a failed fetch, and what the stored document holds ----

\* C17: a handler resumed with no features (fetchLevelFeatures failed and
\* returned []) leaves the feature list and the ability scores as they are
\* and goes on: it increases the hit points and waits for the next level's
\* features, or it ends, with one hit-point increase per level gained, level
\* set to the new level and the state saved.
C17_FailedFetchCompletes ==
  [][(last'.op = "resume" /\ last'.feats = <<>>) =>
       LET c == characters[last'.p]
           d == characters'[last'.p]
       IN /\ d.features = c.features
          /\ d.abilityScores = c.abilityScores
          /\ \E n \in 1..Len(awards) :
               /\ awards[n].ch = last'.p /\ awards[n].lvl = last'.idx
               /\ \/ /\ awards[n].lvl < awards[n].newLevel
                    /\ Len(awards') = Len(awards)
                    /\ \A m \in 1..Len(awards) : m # n => awards'[m] = awards[m]
                    /\ awards'[n].lvl = awards[n].lvl + 1
                    /\ HpIncreases(c, d) = 1
                    /\ d.level = c.level
                 \/ /\ awards[n].lvl = awards[n].newLevel
                    /\ Ended(n)
                    /\ awards[n].hps = awards[n].newLevel - awards[n].start
                    /\ d.hp = c.hp
                    /\ d.level = awards[n].newLevel
                    /\ persisted' = Doc(users', currentUserId', proposals', sessions',
                                        characters', rolls')]_vars

\* an award over two levels has ended although both fetches gave nothing
C17_Witness ==
  /\ last.op = "resume" /\ last.feats = <<>> /\ awards = <<>>
  /\ characters[last.p].classIndex # ""
  /\ characters[last.p].xp = 900 /\ characters[last.p].level = 3
  /\ characters[last.p].features = <<>>
  /\ characters[last.p].hp = 11 + 11 + 11
  /\ persisted.characters = characters

\* C18: between any two steps of event handlers the stored document is the
\* state in memory.
C18_DocumentIsState ==
  persisted = Doc(users, currentUserId, proposals, sessions, characters, rolls)

(***************************************************************************)
(* The application started over any stored document: none, one that does   *)
(* not parse, or a saved state with or without a dice-roll log; users      *)
(* register or log in and roll dice.                                       *)
(***************************************************************************)

MaxRolls == 2

\* loadState(): the state object made of the stored document
loadState(doc) ==
  IF doc.kind = "absent"
  THEN [users |-> <<>>, currentUserId |-> NULL, proposals |-> <<>>, sessions |-> <<>>,
        characters |-> <<>>, rolls |-> EmptyRolls]
  ELSE IF doc.kind = "corrupt"
  THEN [users |-> <<>>, currentUserId |-> NULL, proposals |-> <<>>, sessions |-> <<>>,
        characters |-> <<>>, rolls |-> MissingRolls]
  ELSE [users |-> doc.users, currentUserId |-> doc.currentUserId,
        proposals |-> doc.proposals,
        sessions |-> doc.sessions, characters |-> doc.characters,
        rolls |-> IF doc.rolls.isArray THEN doc.rolls ELSE EmptyRolls]

\* the totals of the dice rolled
RollResults == {1, 20}

\* the entry rollDice logs
RollEntry(userId, result) == [userId |-> userId, result |-> result]

StoredRolls ==
  {MissingRolls, EmptyRolls}
    \cup {[isArray |-> TRUE, entries |-> <<RollEntry(u, r)>>] : u \in UserIds, r \in RollResults}

StoredDocuments ==
  {AbsentDoc, CorruptDoc}
    \cup {Doc(RegisteredUsers, cu, <<>>, <<>>, <<>>, rl) :
            cu \in UserIds \cup {NULL}, rl \in StoredRolls}

\* init(): loadState(), then render(state)
InitLoad ==
  /\ build = "app.js"
  /\ clock = 0
  /\ persisted \in StoredDocuments
  /\ users = loadState(persisted).users
  /\ currentUserId = loadState(persisted).currentUserId
  /\ campaigns = <<[id |-> 1, ownerId |-> 1]>>
  /\ proposals = loadState(persisted).proposals
  /\ sessions = loadState(persisted).sessions
  /\ characters = loadState(persisted).characters
  /\ rolls = loadState(persisted).rolls
  /\ hash = Hash("", NULL)
  /\ last = NoOp
  /\ awards = <<>>
  /\ view = render(currentUserId, campaigns, proposals, characters, hash)

\* value.trim() of a form field
Trim(str) ==
  CASE str = " " -> ""
    [] str = " ANN " -> "ANN"
    [] OTHER -> str

\* state.users.some((u) => u.username.toLowerCase() === username.toLowerCase())
UsernameTakenExact(us, username) == \E k \in 1..Len(us) : us[k].username = username

UsernameTaken(us, username) ==
  \E k \in 1..Len(us) : LowerCase(us[k].username) = LowerCase(username)

\* registerForm.onsubmit with what was typed; the hashchange it causes
\* renders.  A rejected submission (alert) changes nothing of the state.
RegisterSubmit(typedName, password, cap) ==
  LET username == Trim(typedName)
      rejected == username = "" \/ password = "" \/ UsernameTaken(users, username)
      id == Len(users) + 1
  IN /\ view.kind = "register"
     /\ rejected \/ Len(users) < cap
     /\ last' = Op(IF rejected THEN "rejected" ELSE "register",
                   IF rejected THEN currentUserId ELSE id, 0, 0, typedName, password)
     /\ IF rejected
        THEN UNCHANGED <<users, currentUserId, hash, view, persisted>>
        ELSE /\ users' = Append(users, NewUser(id, username, password))
             /\ currentUserId' = id
             /\ hash' = Hash("dashboard", NULL)
             /\ view' = IF hash = Hash("dashboard", NULL) THEN view
                        ELSE render(id, campaigns, proposals, characters,
                                    Hash("dashboard", NULL))
             /\ persisted' = Doc(users', id, proposals, sessions, characters, rolls)
     /\ UNCHANGED <<rolls, build, clock, campaigns, proposals, sessions, characters, awards>>

\* the Roll button of the dice roller: rollDice(expr, '', state), whose
\* state.rolls.push(entry) throws when state.rolls is not an array
RollDice(result) ==
  /\ view.kind = "dice" /\ currentUserId # NULL
  /\ Len(rolls.entries) < MaxRolls
  /\ last' = Op("roll", currentUserId, 0, result, "none",
                IF rolls.isArray THEN "logged" ELSE "TypeError")
  /\ rolls' = IF rolls.isArray
              THEN [rolls EXCEPT !.entries = Append(@, RollEntry(currentUserId, result))]
              ELSE rolls
  /\ UNCHANGED <<build, clock, users, currentUserId, campaigns, proposals, sessions,
                 characters, hash, view, awards>>
  /\ IF rolls.isArray THEN SaveState ELSE UNCHANGED persisted

LoadHashes == {Hash(r, NULL) : r \in {"login", "register", "dashboard", "dice", "logout"}}

NextLoad ==
  \/ \E h \in LoadHashes : Navigate(h)
  \/ \E u \in UserIds : LoginSubmit(u)
  \/ RegisterSubmit("Cy", "pw", MaxUsers + 1)
  \/ \E r \in RollResults : RollDice(r)

SpecLoad == InitLoad /\ [][NextLoad]_vars

\* C19: whatever the stored document was, the dice-roll log of the loaded
\* state is an array, and a dice roll of a logged-in user is appended to it.
C19_RollLogIsArray ==
  /\ rolls.isArray
  /\ last.op = "roll" => last.was = "logged"

\* ---- the views of a user who is not logged in ----

\* C20: while no user is logged in, the view on screen is the login or the
\* register view.
C20_LoggedOutSeesLogin ==
  currentUserId = NULL => view.kind \in {"login", "register"}

(***************************************************************************)
(* Registration on a fresh install: any username and password may be       *)
(* typed into the register form; registered users log in and out.          *)
(***************************************************************************)

MaxRegistered == 2

InitRegister ==
  /\ build = "app.js"
  /\ clock = 0
  /\ persisted = AbsentDoc
  /\ users = loadState(persisted).users
  /\ currentUserId = loadState(persisted).currentUserId
  /\ campaigns = <<>>
  /\ proposals = loadState(persisted).proposals
  /\ sessions = loadState(persisted).sessions
  /\ characters = loadState(persisted).characters
  /\ rolls = loadState(persisted).rolls
  /\ hash = Hash("", NULL)
  /\ last = NoOp
  /\ awards = <<>>
  /\ view = render(currentUserId, campaigns, proposals, characters, hash)

NextRegister ==
  \/ \E r \in {"login", "register", "dashboard", "logout"} : Navigate(Hash(r, NULL))
  \/ \E u \in 1..MaxRegistered : LoginSubmit(u)
  \/ \E name \in {"", " ", "Ann", "ann", " ANN ", "Bob"}, pw \in {"", "pw"} :
       RegisterSubmit(name, pw, MaxRegistered)

SpecRegister == InitRegister /\ [][NextRegister]_vars

\* C21: a registration whose trimmed username or whose password is empty,
\* or whose username equals an existing one ignoring case, changes neither
\* users nor currentUserId; and no two users have usernames equal ignoring
\* case.
C21_RegistrationRejected ==
  [][/\ last'.op \in {"register", "rejected"} =>
          LET name == Trim(last'.vt)
              bad == \/ name = ""
                     \/ last'.was = ""
                     \/ \E k \in 1..Len(users) :
                          LowerCase(users[k].username) = LowerCase(name)
          IN /\ bad => users' = users /\ currentUserId' = currentUserId
             /\ ~bad => /\ Len(users') = Len(users) + 1
                        /\ users'[Len(users')].username = name
                        /\ currentUserId' = users'[Len(users')].id
     /\ \A i, j \in 1..Len(users') :
          i # j => LowerCase(users'[i].username) # LowerCase(users'[j].username)]_vars

\* " ANN " was typed while Ann and Bob are registered, and was rejected
C21_Witness ==
  /\ last.op = "rejected" /\ last.vt = " ANN " /\ last.was = "pw"
  /\ Len(users) = 2
  /\ users[1].username = "Bob" /\ users[2].username = "Ann"

\* ---- the listing after a finalization ----

C23_OverlapAsSequential ==
  [][\A k \in 1..Len(characters) :
       /\ characters'[k].level >= characters[k].level
       /\ awards' = <<>> => characters'[k].level = getLevelFromXp(characters'[k].xp)]_vars

(***************************************************************************)
(* The View button of a Scheduled Sessions entry and the session view it   *)
(* leads to, over the listing of app.js.                                   *)
(***************************************************************************)

\* renderSessionDetail: state.sessions.find((s) => s.id === id), "Session not
\* found." when there is none
renderSessionDetail(sess, h) ==
  IF FindById(sess, ParamId(h)) = 0
  THEN View("session-notfound", NULL, FALSE, {}, {})
  ELSE View("session", sess[FindById(sess, ParamId(h))].id, FALSE, {}, {})

\* openBtn.onclick of the i-th listed entry: window.location.hash =
\* `#session?id=${sess.id}`, and the hashchange renders the session view
ViewSessionClick(i) ==
  /\ view.kind = "campaign"
  /\ i \in 1..Len(Listing)
  /\ hash' = Hash("session", Listing[i].id)
  /\ view' = renderSessionDetail(sessions, hash')
  /\ last' = Op("view-session", currentUserId, 0, i, "none",
                IF \E k \in 1..Len(proposals) : proposals[k].id = Listing[i].id
                THEN "proposal" ELSE "stored")
  /\ UNCHANGED <<users, rolls, build, clock, currentUserId, campaigns, proposals, sessions,
                 characters, awards>>
  /\ UNCHANGED persisted

NextSessionView ==
  \/ NextListing
  \/ \E i \in 1..(MaxLegacySessions + MaxListedProposals) : ViewSessionClick(i)

SpecSessionView == InitListing /\ [][NextSessionView]_vars

\* C24: the View button of every listed entry, entries of finalized proposals
\* included, leads to a session view that found a session with the entry's
\* id, never to "Session not found".
C24_ListedEntryOpens ==
  last.op = "view-session" => (view.kind = "session" /\ view.id = hash.id)

\* C27: when an award handler is resumed at level K, with or without an
\* ability score increase, the hit points already gained for level K and
\* earlier stay as they are, and the gain of the next level K+1, taken in
\* the same step when K is below the new level, is the hit die (8 when
\* missing) plus floor((con - 10) / 2) of the constitution score as the
\* increases granted so far have left it.
C27_LaterLevelsUseNewCon ==
  [][last'.op = "resume" =>
       LET before == characters[last'.p]
           after == characters'[last'.p]
           die == IF after.hitDie = 0 THEN 8 ELSE after.hitDie
       IN \E n \in 1..Len(awards) :
            /\ awards[n].ch = last'.p /\ awards[n].lvl = last'.idx
            /\ after.hp = before.hp +
                 (IF awards[n].lvl < awards[n].newLevel
                  THEN die + ((after.abilityScores["con"] - 10) \div 2)
                  ELSE 0)]_vars

\* constitution went from 13 to 15 at level 2 of an award to level 3: the
\* gain of level 2 stayed 11 and the gain of level 3 was 12
C27_Witness ==
  /\ last.op = "resume" /\ last.idx = 2 /\ last.tokens = <<"CON">>
  /\ Len(awards) = 1 /\ awards[1].lvl = 3
  /\ characters[last.p].abilityScores["con"] = 15
  /\ characters[last.p].hp = 34

(***************************************************************************)
(* The proposal form submitted with any rows: none (every row removed),    *)
(* rows with an input left empty, complete rows.                           *)
(***************************************************************************)

ProposeRows ==
  { <<>>,
    <<Row("", "", "", "")>>,
    <<Row("2025-08-02", "18:00", "", "Inn")>>,
    <<Row("2025-08-02", "", "22:00", ""), Row("", "18:00", "22:00", "")>>,
    <<FullRow>>,
    <<Row("2025-08-03", "", "22:00", ""), Row("2025-08-03", "19:00", "22:00", "Inn")>>,
    <<Row("2025-08-03", "19:00", "22:00", "Inn"), FullRow>> }

NextPropose ==
  \/ \E h \in Hashes : Navigate(h)
  \/ \E u \in UserIds : LoginSubmit(u)
  \/ \E rows \in ProposeRows : ProposeSubmit(rows, MaxProposals)

SpecPropose == Init /\ [][NextPropose]_vars

\* C28: the proposals list grows only by a submission of the proposal form
\* by the owner of the campaign with at least one row whose date, start and
\* end are filled in; a submission without such a row changes nothing; the
\* proposal appended is not finalized, has no chosen option, has the filled
\* rows as its options, in their order, and one vote record with empty yes,
\* maybe and no buckets per option.
C28_ProposalCreation ==
  [][LET filled == {k \in 1..Len(last'.rows) :
                      /\ last'.rows[k].date # ""
                      /\ last'.rows[k].start # ""
                      /\ last'.rows[k].end # ""}
         np == proposals'[Len(proposals')]
     IN /\ Len(proposals') >= Len(proposals)
        /\ Len(proposals') > Len(proposals) => last'.op = "propose"
        /\ last'.op = "propose-rejected" =>
             /\ filled = {}
             /\ UNCHANGED <<users, currentUserId, campaigns, proposals, sessions,
                            characters, rolls, persisted, hash, view>>
        /\ last'.op = "propose" =>
             /\ filled # {}
             /\ proposals' = Append(proposals, np)
             /\ \E c \in 1..Len(campaigns) :
                  /\ campaigns[c].id = np.campaignId
                  /\ campaigns[c].ownerId = currentUserId
             /\ np.createdBy = currentUserId
             /\ np.finalized = FALSE /\ np.finalChoiceIndex = NULL
             /\ Len(np.options) = Cardinality(filled)
             /\ \A i \in 1..Len(np.options) :
                  \E k \in filled :
                    /\ np.options[i] = last'.rows[k]
                    /\ Cardinality({j \in filled : j < k}) = i - 1
             /\ DOMAIN np.votes = 1..Len(np.options)
             /\ \A i \in 1..Len(np.options) :
                  np.votes[i] = [yes |-> <<>>, maybe |-> <<>>, no |-> <<>>]]_vars

\* a form whose first row lacked the start time: the proposal has the second
\* row as its only option
C28_Witness ==
  /\ last.op = "propose"
  /\ Len(last.rows) = 2 /\ last.rows[1].start = ""
  /\ Len(proposals[last.p].options) = 1
  /\ proposals[last.p].options[1] = last.rows[2]

(***************************************************************************)
(* handleVote called on one of two proposals that already hold votes of    *)
(* both users (a record is as earlier votes of users 1 and 2 left it): the *)
(* first open, its last option possibly without a vote record, the second  *)
(* finalized.                                                              *)
(***************************************************************************)

InitVoteFrame ==
  /\ build = "app.js"
  /\ clock = 0
  /\ currentUserId \in UserIds
  /\ campaigns = <<[id |-> 1, ownerId |-> 1]>>
  /\ \E f \in [1..MaxOptions -> { [yes |-> <<1>>, maybe |-> <<>>, no |-> <<>>],
                                  [yes |-> <<2, 1>>, maybe |-> <<>>, no |-> <<>>],
                                  [yes |-> <<>>, maybe |-> <<1>>, no |-> <<2>>] }],
        n \in {MaxOptions - 1, MaxOptions} :
       proposals =
         <<[NewProposal(1, 1, 1, VoteOptions) EXCEPT !.votes = [k \in 1..n |-> f[k]]],
           [finalize(NewProposal(2, 1, 1, <<FullRow>>), 1) EXCEPT !.votes = <<f[1]>>]>>
  /\ sessions = <<>>
  /\ characters = <<>>
  /\ hash = Hash("campaign", 1)
  /\ view = View("campaign", 1, FALSE, {1}, {})
  /\ awards = <<>>
  /\ last = NoOp
  /\ Loaded

NextVoteFrame ==
  \E p \in 1..Len(proposals), idx \in 1..MaxOptions, vt \in VoteTypes :
    idx \in 1..Len(proposals[p].options) /\ HandleVoteCall(p, idx, vt)

SpecVoteFrame == InitVoteFrame /\ [][NextVoteFrame]_vars

\* C30: handleVote by user u on option i of a proposal leaves as they are
\* the vote records of the proposal's other options, the other users'
\* entries in the three buckets of option i, the proposal's finalized flag
\* and chosen index, and every other proposal.
C30_VoteFrame ==
  [][last'.op = "vote" =>
       LET p == last'.p
           i == last'.idx
           u == last'.user
           old == IF i \in DOMAIN proposals[p].votes THEN proposals[p].votes[i]
                  ELSE [yes |-> <<>>, maybe |-> <<>>, no |-> <<>>]
           NotU(w) == w # u
       IN /\ Len(proposals') = Len(proposals)
          /\ \A q \in 1..Len(proposals) : q # p => proposals'[q] = proposals[q]
          /\ proposals'[p].finalized = proposals[p].finalized
          /\ proposals'[p].finalChoiceIndex = proposals[p].finalChoiceIndex
          /\ DOMAIN proposals'[p].votes = DOMAIN proposals[p].votes \cup {i}
          /\ \A k \in DOMAIN proposals[p].votes :
               k # i => proposals'[p].votes[k] = proposals[p].votes[k]
          /\ \A vt \in {"yes", "maybe", "no"} :
               SelectSeq(proposals'[p].votes[i][vt], NotU) = SelectSeq(old[vt], NotU)]_vars

\* user 2 moved from the yes bucket of option 1 of the open proposal, which
\* user 1 shares, to its no bucket; the finalized proposal still has both
C30_Witness ==
  /\ last.op = "vote" /\ last.user = 2 /\ last.p = 1 /\ last.idx = 1
  /\ last.was = "yes" /\ last.vt = "no"
  /\ proposals[1].votes[1] = [yes |-> <<1>>, maybe |-> <<>>, no |-> <<2>>]
  /\ proposals[2].finalized /\ proposals[2].votes[1].yes = <<2, 1>>

(***************************************************************************)
(* The flat-vote-list revision (the second script of src/app.js): build =  *)
(* "flat".  A campaign is {id, name, dmId, playerIds}; a session is {id,    *)
(* campaignId, name, proposedTimes, finalTimeId}; a proposed time is {id,   *)
(* datetime, votes, createdBy} with votes the list of the voters' ids.      *)
(* The id of the page is the ?id= of the URL (hash.id), the route its       *)
(* fragment (hash.route, compared whole).  clock counts the ids uuid() has  *)
(* handed out: uuid() starts with Date.now(), so an id is never reused.     *)
(* Every handler that changes the state saves it, so a reload finds the     *)
(* state it left.                                                           *)
(***************************************************************************)

\* JSON.stringify(state) of this revision
FlatDoc(us, cu, camps, sess) ==
  [kind |-> "json", users |-> us, currentUserId |-> cu, campaigns |-> camps,
   sessions |-> sess]

\* the value of a datetime-local input ("" = left empty) as new Date(...)
\* reads it: seconds from 2025-08-01T00:00
DateTimeInputs == {"", "2025-08-02T18:00", "2025-08-03T18:00"}

DateValue(datetime) ==
  CASE datetime = "2025-08-02T18:00" -> 151200
    [] datetime = "2025-08-03T18:00" -> 237600
    [] OTHER -> NaN

NewCampaign(id, name, dmId, playerIds) ==
  [id |-> id, name |-> name, dmId |-> dmId, playerIds |-> playerIds]

NewProposedTime(id, datetime, userId) ==
  [id |-> id, datetime |-> datetime, votes |-> <<>>, createdBy |-> userId]

\* newSession of proposeSessionForm.onsubmit: the session id is the first
\* uuid, the id of the initial time the second
NewFlatSession(id, campId, title, datetime, userId) ==
  [id |-> id, campaignId |-> campId, name |-> title,
   proposedTimes |-> IF datetime = "" THEN <<>>
                     ELSE <<NewProposedTime(id + 1, datetime, userId)>>,
   finalTimeId |-> NULL]

\* usernames.forEach: the ids of the users found, compared in lower case
RECURSIVE PlayerIdsOf(_, _)
PlayerIdsOf(us, usernames) ==
  IF usernames = <<>> THEN <<>>
  ELSE LET found == {k \in 1..Len(us) :
                       LowerCase(us[k].username) = LowerCase(Head(usernames))}
       IN IF found = {} THEN PlayerIdsOf(us, Tail(usernames))
          ELSE <<us[CHOOSE k \in found : \A j \in found : k <= j].id>>
                 \o PlayerIdsOf(us, Tail(usernames))

\* the dashboard's delete handler: the campaign and its sessions are filtered out
deleteCampaignOnly(camps, sess, id) ==
  LET KeepC(c) == c.id # id
  IN [campaigns |-> SelectSeq(camps, KeepC), sessions |-> sess]

deleteCampaign(camps, sess, id) ==
  LET KeepC(c) == c.id # id
      KeepS(x) == x.campaignId # id
  IN [campaigns |-> SelectSeq(camps, KeepC), sessions |-> SelectSeq(sess, KeepS)]

\* state.sessions.filter((s) => s.id !== btn.dataset.id)
deleteSession(sess, id) ==
  LET KeepS(x) == x.id # id
  IN SelectSeq(sess, KeepS)

\* compareProposedTimes(a, b): votes descending, then date ascending
compareProposedTimesByDate(a, b) == DateValue(a.datetime) - DateValue(b.datetime)

compareProposedTimes(a, b) ==
  IF Len(a.votes) # Len(b.votes) THEN Len(b.votes) - Len(a.votes)
  ELSE DateValue(a.datetime) - DateValue(b.datetime)

\* Array.prototype.sort with compareProposedTimes (stable): t goes before the
\* first sorted element it compares below
RECURSIVE InsertTime(_, _)
InsertTime(sorted, t) ==
  IF sorted = <<>> THEN <<t>>
  ELSE IF compareProposedTimes(t, Head(sorted)) < 0 THEN <<t>> \o sorted
  ELSE <<Head(sorted)>> \o InsertTime(Tail(sorted), t)

RECURSIVE SortTimes(_)
SortTimes(times) ==
  IF times = <<>> THEN <<>>
  ELSE InsertTime(SortTimes(SubSeq(times, 1, Len(times) - 1)), times[Len(times)])

\* finalizeBtn.onclick on a session: proposedTimes sorted in place, finalTimeId
\* the id of the first
finalizeBest(session) ==
  IF Len(session.proposedTimes) = 0 THEN session
  ELSE [session EXCEPT !.proposedTimes = SortTimes(@),
                       !.finalTimeId = SortTimes(session.proposedTimes)[1].id]

\* the vote button of time timeId: the user's id pushed or spliced out
toggleVote(session, timeId, userId) ==
  [session EXCEPT !.proposedTimes =
     [k \in 1..Len(@) |->
        IF k = FindById(session.proposedTimes, timeId)
        THEN [@[k] EXCEPT !.votes = IF IndexOf(@, userId) = 0 THEN Append(@, userId)
                                    ELSE Splice(@, IndexOf(@, userId))]
        ELSE @[k]]]

\* the delete button of time timeId
deleteTimeKeepFinal(session, timeId) ==
  LET KeepT(t) == t.id # timeId
  IN [session EXCEPT !.proposedTimes = SelectSeq(@, KeepT)]

deleteTime(session, timeId) ==
  LET KeepT(t) == t.id # timeId
  IN [session EXCEPT !.proposedTimes = SelectSeq(@, KeepT),
                     !.finalTimeId = IF @ = timeId THEN NULL ELSE @]

\* ---- views and handlers of the flat-vote-list revision ----

\* render(state): id = the campaign or session shown, owner = the Dungeon
\* Master's forms and delete buttons were rendered.  (renderSessionDetail
\* throws on campaign.name when the session's campaign is missing and
\* leaves the container as it was: kind "flat-error".)
FlatRender(cu, camps, sess, h) ==
  IF cu = NULL THEN View("flat-login", NULL, FALSE, {}, {})
  ELSE CASE h.route = "create-campaign" -> View("flat-create", NULL, FALSE, {}, {})
         [] h.route = "campaign" ->
              IF FindById(camps, h.id) = 0 THEN View("flat-notfound", NULL, FALSE, {}, {})
              ELSE View("flat-campaign", h.id, camps[FindById(camps, h.id)].dmId = cu, {}, {})
         [] h.route = "session" ->
              IF FindById(sess, h.id) = 0 THEN View("flat-notfound", NULL, FALSE, {}, {})
              ELSE IF FindById(camps, sess[FindById(sess, h.id)].campaignId) = 0
                   THEN View("flat-error", NULL, FALSE, {}, {})
              ELSE View("flat-session", h.id,
                        camps[FindById(camps, sess[FindById(sess, h.id)].campaignId)].dmId = cu,
                        {}, {})
         [] OTHER -> View("flat-dashboard", NULL, FALSE, {}, {})

\* a URL loaded or a fragment changed: render(state), handleLogout on #logout
FlatNavigate(route, id) ==
  /\ Hash(route, id) # hash
  /\ IF currentUserId # NULL /\ route = "logout"
     THEN /\ currentUserId' = NULL
          /\ hash' = Hash("login", id)
          /\ last' = Op("logout", currentUserId, 0, 0, "none", "none")
     ELSE /\ hash' = Hash(route, id)
          /\ last' = Op("navigate", currentUserId, 0, 0, "none", "none")
          /\ UNCHANGED currentUserId
  /\ view' = FlatRender(currentUserId', campaigns, sessions, hash')
  /\ persisted' = FlatDoc(users, currentUserId', campaigns, sessions)
  /\ UNCHANGED <<build, clock, users, campaigns, sessions, proposals, characters, rolls, awards>>

\* loginForm.onsubmit with the credentials of user u
FlatLoginSubmit(u) ==
  /\ view.kind = "flat-login"
  /\ \E k \in 1..Len(users) : users[k].id = u
  /\ currentUserId' = u
  /\ hash' = Hash("dashboard", hash.id)
  /\ view' = FlatRender(u, campaigns, sessions, hash')
  /\ last' = Op("login", u, 0, 0, "none", "none")
  /\ persisted' = FlatDoc(users, u, campaigns, sessions)
  /\ UNCHANGED <<build, clock, users, campaigns, sessions, proposals, characters, rolls, awards>>

\* createCampaignForm.onsubmit
CreateCampaignSubmit(name, usernames, cap) ==
  LET rejected == name = ""
  IN /\ view.kind = "flat-create"
     /\ rejected \/ clock < cap
     /\ last' = Op(IF rejected THEN "create-rejected" ELSE "create-campaign",
                   currentUserId, 0, clock + 1, "none", "none")
     /\ IF rejected
        THEN UNCHANGED <<clock, campaigns, hash, view, persisted>>
        ELSE /\ clock' = clock + 1
             /\ campaigns' = Append(campaigns,
                               NewCampaign(clock + 1, name, currentUserId,
                                           PlayerIdsOf(users, usernames)))
             /\ hash' = Hash("dashboard", hash.id)
             /\ view' = FlatRender(currentUserId, campaigns', sessions, hash')
             /\ persisted' = FlatDoc(users, currentUserId, campaigns', sessions)
     /\ UNCHANGED <<build, users, currentUserId, sessions, proposals, characters, rolls, awards>>

\* the Delete button of campaign id on the dashboard; ok = the confirm() answer
DeleteCampaignClick(id, ok) ==
  /\ view.kind = "flat-dashboard"
  /\ \E k \in 1..Len(campaigns) : campaigns[k].id = id /\ campaigns[k].dmId = currentUserId
  /\ last' = Op(IF ok THEN "delete-campaign" ELSE "delete-cancelled",
                currentUserId, 0, id, "none", "none")
  /\ IF ok
     THEN /\ campaigns' = deleteCampaign(campaigns, sessions, id).campaigns
          /\ sessions' = deleteCampaign(campaigns, sessions, id).sessions
          /\ view' = FlatRender(currentUserId, campaigns', sessions', hash)
          /\ persisted' = FlatDoc(users, currentUserId, campaigns', sessions')
     ELSE UNCHANGED <<campaigns, sessions, view, persisted>>
  /\ UNCHANGED <<build, clock, users, currentUserId, hash, proposals, characters, rolls, awards>>

\* proposeSessionForm.onsubmit of the campaign on screen
ProposeSessionSubmit(title, datetime, cap) ==
  LET rejected == title = ""
      ids == IF datetime = "" THEN 1 ELSE 2
  IN /\ view.kind = "flat-campaign" /\ view.owner
     /\ rejected \/ clock + ids <= cap
     /\ last' = Op(IF rejected THEN "session-rejected" ELSE "create-session",
                   currentUserId, 0, clock + 1, "none", "none")
     /\ IF rejected
        THEN UNCHANGED <<clock, sessions, view, persisted>>
        ELSE /\ clock' = clock + ids
             /\ sessions' = Append(sessions,
                              NewFlatSession(clock + 1, view.id, title, datetime,
                                             currentUserId))
             /\ view' = FlatRender(currentUserId, campaigns, sessions', hash)
             /\ persisted' = FlatDoc(users, currentUserId, campaigns, sessions')
     /\ UNCHANGED <<build, users, currentUserId, campaigns, hash, proposals, characters,
                    rolls, awards>>

\* the Delete button of session id in the campaign on screen
DeleteSessionClick(id, ok) ==
  /\ view.kind = "flat-campaign" /\ view.owner
  /\ \E k \in 1..Len(sessions) : sessions[k].id = id /\ sessions[k].campaignId = view.id
  /\ last' = Op(IF ok THEN "delete-session" ELSE "delete-cancelled",
                currentUserId, 0, id, "none", "none")
  /\ IF ok
     THEN /\ sessions' = deleteSession(sessions, id)
          /\ view' = FlatRender(currentUserId, campaigns, sessions', hash)
          /\ persisted' = FlatDoc(users, currentUserId, campaigns, sessions')
     ELSE UNCHANGED <<sessions, view, persisted>>
  /\ UNCHANGED <<build, clock, users, currentUserId, campaigns, hash, proposals, characters,
                 rolls, awards>>

\* the session on screen: its position in state.sessions
ShownSession == FindById(sessions, view.id)

\* a handler of the session view that replaces the session by next
SessionStep(name, idx, next) ==
  /\ sessions' = [sessions EXCEPT ![ShownSession] = next]
  /\ last' = Op(name, currentUserId, ShownSession, idx, "none",
                IF Len(sessions[ShownSession].proposedTimes) = 0 THEN "empty" ELSE "times")
  /\ persisted' = FlatDoc(users, currentUserId, campaigns, sessions')
  /\ UNCHANGED <<build, users, currentUserId, campaigns, hash, view, proposals, characters,
                 rolls, awards>>

\* addTimeForm.onsubmit
AddTimeSubmit(datetime, cap) ==
  /\ view.kind = "flat-session" /\ view.owner
  /\ datetime = "" \/ clock < cap
  /\ IF datetime = ""
     THEN /\ SessionStep("time-rejected", 0, sessions[ShownSession])
          /\ UNCHANGED clock
     ELSE /\ SessionStep("add-time", clock + 1,
                         [sessions[ShownSession] EXCEPT !.proposedTimes =
                            Append(@, NewProposedTime(clock + 1, datetime, currentUserId))])
          /\ clock' = clock + 1

\* the Vote / Unvote button of a listed time
VoteTimeClick(timeId) ==
  /\ view.kind = "flat-session"
  /\ FindById(sessions[ShownSession].proposedTimes, timeId) # 0
  /\ SessionStep("vote-time", timeId, toggleVote(sessions[ShownSession], timeId, currentUserId))
  /\ UNCHANGED clock

\* the Delete button of a listed time
DeleteTimeClick(timeId) ==
  /\ view.kind = "flat-session" /\ view.owner
  /\ FindById(sessions[ShownSession].proposedTimes, timeId) # 0
  /\ SessionStep("delete-time", timeId, deleteTime(sessions[ShownSession], timeId))
  /\ UNCHANGED clock

\* the Finalize Best Time button (disabled, and its handler returning at
\* once, when the session has no proposed time)
FinalizeBestClick ==
  /\ view.kind = "flat-session" /\ view.owner
  /\ SessionStep("finalize-best", 0, finalizeBest(sessions[ShownSession]))
  /\ UNCHANGED clock

(***************************************************************************)
(* The session view of the flat-vote-list revision: the Dungeon Master     *)
(* (user 1) and the players add, vote on, delete and finalize the proposed *)
(* times of one session.                                                   *)
(***************************************************************************)

MaxTimes == 2

InitFlatSession ==
  /\ build = "flat"
  /\ users = RegisteredUsers
  /\ currentUserId = 1
  /\ campaigns = <<NewCampaign(1, "Mines", 1, <<2>>)>>
  /\ sessions = <<NewFlatSession(2, 1, "Heist", "", 1)>>
  /\ clock = Len(campaigns) + Len(sessions)
  /\ proposals = <<>>
  /\ characters = <<>>
  /\ rolls = EmptyRolls
  /\ awards = <<>>
  /\ hash = Hash("session", sessions[1].id)
  /\ view = FlatRender(currentUserId, campaigns, sessions, hash)
  /\ last = NoOp
  /\ persisted = FlatDoc(users, currentUserId, campaigns, sessions)

NextFlatSession ==
  \/ \E route \in {"session", "logout"} : FlatNavigate(route, sessions[1].id)
  \/ \E u \in UserIds : FlatLoginSubmit(u)
  \/ \E datetime \in DateTimeInputs :
       AddTimeSubmit(datetime, Len(campaigns) + Len(sessions) + MaxTimes)
  \/ \E timeId \in 1..clock : VoteTimeClick(timeId)
  \/ \E timeId \in 1..clock : DeleteTimeClick(timeId)
  \/ FinalizeBestClick

SpecFlatSession == InitFlatSession /\ [][NextFlatSession]_vars

\* C25: Finalize Best Time sets finalTimeId to the id of a proposed time
\* that no proposed time of the session beats in votes and that no time
\* with as many votes precedes in date-time; on a session without proposed
\* times it changes nothing.
C25_FinalizeBestTime ==
  [][last'.op = "finalize-best" =>
       LET old == sessions[last'.p]
           new == sessions'[last'.p]
           times == {old.proposedTimes[k] : k \in 1..Len(old.proposedTimes)}
       IN IF times = {}
          THEN UNCHANGED <<users, currentUserId, campaigns, sessions, persisted, hash, view>>
          ELSE \E t \in times :
                 /\ new.finalTimeId = t.id
                 /\ \A u \in times :
                      \/ Len(u.votes) < Len(t.votes)
                      \/ /\ Len(u.votes) = Len(t.votes)
                         /\ DateValue(t.datetime) <= DateValue(u.datetime)]_vars

\* two times with one vote each were finalized: the earlier one was chosen
\* although it was proposed second
C25_Witness ==
  /\ last.op = "finalize-best"
  /\ \E a, b \in 1..Len(sessions[1].proposedTimes) :
       /\ sessions[1].proposedTimes[a].id < sessions[1].proposedTimes[b].id
       /\ Len(sessions[1].proposedTimes[a].votes) = 1
       /\ Len(sessions[1].proposedTimes[b].votes) = 1
       /\ DateValue(sessions[1].proposedTimes[b].datetime)
            < DateValue(sessions[1].proposedTimes[a].datetime)
       /\ sessions[1].finalTimeId = sessions[1].proposedTimes[b].id

\* C26: the finalTimeId of every session is null or the id of a time in its
\* proposedTimes.
C26_FinalTimePresent ==
  \A k \in 1..Len(sessions) :
    \/ sessions[k].finalTimeId = NULL
    \/ \E j \in 1..Len(sessions[k].proposedTimes) :
         sessions[k].proposedTimes[j].id = sessions[k].finalTimeId

\* the finalized time was deleted while another time was left
C26_Witness ==
  /\ last.op = "delete-time"
  /\ sessions[1].finalTimeId = NULL
  /\ Len(sessions[1].proposedTimes) = 1
  /\ sessions[1].proposedTimes[1].id # last.idx
  /\ sessions[1].proposedTimes[1].id > last.idx

(***************************************************************************)
(* Campaigns and sessions of the flat-vote-list revision: users create and *)
(* delete campaigns from the dashboard and sessions from the campaign      *)
(* view, and move between the views.                                       *)
(***************************************************************************)

MaxFlatIds == 4

\* the URLs a user loads: the dashboard, the campaign form, a stored campaign
FlatCampaignHashes ==
  {Hash(r, NULL) : r \in {"dashboard", "create-campaign", "logout"}}
    \cup {Hash("campaign", campaigns[k].id) : k \in 1..Len(campaigns)}

InitFlatCampaign ==
  /\ build = "flat"
  /\ users = RegisteredUsers
  /\ currentUserId \in UserIds
  /\ campaigns = <<>>
  /\ sessions = <<>>
  /\ clock = 0
  /\ proposals = <<>>
  /\ characters = <<>>
  /\ rolls = EmptyRolls
  /\ awards = <<>>
  /\ hash = Hash("dashboard", NULL)
  /\ view = FlatRender(currentUserId, campaigns, sessions, hash)
  /\ last = NoOp
  /\ persisted = FlatDoc(users, currentUserId, campaigns, sessions)

NextFlatCampaign ==
  \/ \E h \in FlatCampaignHashes : FlatNavigate(h.route, h.id)
  \/ \E u \in UserIds : FlatLoginSubmit(u)
  \/ \E name \in {"", "Mines"}, usernames \in { <<"bob", "Zed">> } :
       CreateCampaignSubmit(name, usernames, MaxFlatIds)
  \/ \E id \in 1..MaxFlatIds, ok \in BOOLEAN : DeleteCampaignClick(id, ok)
  \/ \E title \in {"", "Heist"}, datetime \in {"", "2025-08-02T18:00"} :
       ProposeSessionSubmit(title, datetime, MaxFlatIds)
  \/ \E id \in 1..MaxFlatIds, ok \in BOOLEAN : DeleteSessionClick(id, ok)

SpecFlatCampaign == InitFlatCampaign /\ [][NextFlatCampaign]_vars

\* C29: before and after every step the campaignId of every stored session
\* is the id of a stored campaign; a confirmed deletion of a campaign
\* removes that campaign and the sessions of that campaign and leaves
\* every other campaign and every other session as it was, in its order.
C29_SessionsHaveCampaigns ==
  [][LET Owned(camps, sess) ==
           \A k \in 1..Len(sess) : \E c \in 1..Len(camps) : camps[c].id = sess[k].campaignId
         id == last'.idx
         otherC == {k \in 1..Len(campaigns) : campaigns[k].id # id}
         otherS == {k \in 1..Len(sessions) : sessions[k].campaignId # id}
     IN /\ Owned(campaigns, sessions)
        /\ Owned(campaigns', sessions')
        /\ last'.op = "delete-campaign" =>
             /\ Len(campaigns') = Cardinality(otherC)
             /\ Len(sessions') = Cardinality(otherS)
             /\ \A k \in otherC :
                  campaigns'[Cardinality({j \in otherC : j <= k})] = campaigns[k]
             /\ \A k \in otherS :
                  sessions'[Cardinality({j \in otherS : j <= k})] = sessions[k]]_vars

\* a campaign with a session was deleted while another campaign with a
\* session was stored: the other campaign and its session are left
C29_Witness ==
  /\ last.op = "delete-campaign"
  /\ Len(campaigns) = 1 /\ Len(sessions) = 1
  /\ sessions[1].campaignId = campaigns[1].id
  /\ last.idx < campaigns[1].id
  /\ sessions[1].id = clock /\ clock = MaxFlatIds

====
